---- MODULE Spec2Model ----
(***************************************************************************)
(* Model of utils/openrouter_api.py: the completion gateway                *)
(* send_api_request, the context detectors and the generators built on it. *)
(*                                                                         *)
(* Python str values are sequences of one-character strings, so that       *)
(* strip(), lower(), startswith and the substring test `"429" in str(e)`   *)
(* are computed character by character.  Python/JSON values are tagged     *)
(* pairs <<type, payload>>, read with Tag and Val.                         *)
(***************************************************************************)
EXTENDS Integers, Sequences, FiniteSets, TLC

\* ---------------------------------------------------------------- bounds
MaxRetry == 1
MaxDelay == 1
MaxTextLen == 1

\* -------------------------------------------------------------- state
VARIABLES
  OPENROUTER_API_KEY,   \* module configuration, read once at import
  json_error_class,     \* what the installed requests raises on a non-JSON body
  pc,                   \* "idle", "awaiting" (POST outstanding) or "done"
  call,                 \* the public operation in progress and its arguments
  sent,                 \* the requests posted by the operation in progress
  answers,              \* the backend's answers to them
  labels,               \* optimize_cv_with_keywords: the detector labels assigned so far
  outcome,              \* what the operation handed to its caller
  prev                  \* the previous completed call, when a call is repeated

vars ==
  <<OPENROUTER_API_KEY, json_error_class, pc, call, sent, answers, labels, outcome, prev>>

\* ------------------------------------------------------ python str helpers
IsPrefix(p, s) == Len(p) <= Len(s) /\ SubSeq(s, 1, Len(p)) = p

\* Python `sub in s` for two str values.
StrContains(sub, s) ==
  \E i \in 0..(Len(s) - Len(sub)) : SubSeq(s, i + 1, i + Len(sub)) = sub

\* str.strip(): drop leading and trailing whitespace.
Strip(s) ==
  LET keep == {i \in 1..Len(s) : s[i] \notin {" ", "\n", "\t", "\r"}}
  IN IF keep = {} THEN <<>>
     ELSE LET lo == CHOOSE i \in keep : \A j \in keep : i <= j
              hi == CHOOSE i \in keep : \A j \in keep : j <= i
          IN SubSeq(s, lo, hi)

UpperChars == <<"A", "B", "C", "D", "E", "F", "G", "H", "I", "J", "K", "L", "M",
                "N", "O", "P", "Q", "R", "S", "T", "U", "V", "W", "X", "Y", "Z">>
LowerChars == <<"a", "b", "c", "d", "e", "f", "g", "h", "i", "j", "k", "l", "m",
                "n", "o", "p", "q", "r", "s", "t", "u", "v", "w", "x", "y", "z">>

LowerChar(c) ==
  IF \E i \in 1..Len(UpperChars) : UpperChars[i] = c
  THEN LowerChars[CHOOSE i \in 1..Len(UpperChars) : UpperChars[i] = c]
  ELSE c

\* str.lower()
Lower(s) == [i \in 1..Len(s) |-> LowerChar(s[i])]

DigitChars == <<"0", "1", "2", "3", "4", "5", "6", "7", "8", "9">>

\* str(status_code) for a three-digit status
StatusText(n) ==
  <<DigitChars[(n \div 100) + 1], DigitChars[((n \div 10) % 10) + 1], DigitChars[(n % 10) + 1]>>

\* ------------------------------------------------------- python values
Tag(x) == x[1]
Val(x) == x[2]
Str(s) == <<"str", s>>
None == <<"null", 0>>
Num(n) == <<"num", n>>
List(xs) == <<"list", xs>>
Obj(f) == <<"obj", f>>
EmptyObj == Obj([k \in {} |-> 0])

Return(val) == [k |-> "return", v |-> val]
Raise(cls, msg) == [k |-> "raise", v |-> <<cls, msg>>]
NoOutcome == [k |-> "none", v |-> None]

\* ------------------------------------------------- module configuration
OPENROUTER_BASE_URL ==
  <<"h", "t", "t", "p", "s", ":", "/", "/", "o", "p", "e", "n", "r", "o", "u", "t", "e", "r", ".",
    "a", "i", "/", "a", "p", "i", "/", "v", "1", "/", "c", "h", "a", "t", "/", "c", "o", "m", "p",
    "l", "e", "t", "i", "o", "n", "s">>

MODEL == "mistralai/mistral-7b-instruct:free"

SYSTEM_INSTRUCTION == "You are an expert resume editor and career advisor. Always respond in the same language as the CV or job description provided by the user."

TIMEOUT == 5

\* The values os.environ.get("OPENROUTER_API_KEY", "") can yield.
ApiKeys == {<<>>, <<"k">>}

headers(key) ==
  [ContentType |-> "application/json",
   Authorization |-> <<"B", "e", "a", "r", "e", "r", " ">> \o key,
   HTTPReferer |-> "https://cv-optimizer-pro.repl.co/"]

\* ------------------------------------------------------ sentinel texts
\* (the Polish diacritics of the source are written as plain ASCII letters)
RATE_LIMITED_PREFIX == <<"[", "R", "A", "T", "E", "_", "L", "I", "M", "I", "T", "E", "D", "]">>
ERROR_PREFIX == <<"[", "E", "R", "R", "O", "R", "]">>

RATE_LIMITED_MESSAGE ==
  <<"[", "R", "A", "T", "E", "_", "L", "I", "M", "I", "T", "E", "D", "]", " ", "P", "r", "z", "e",
    "k", "r", "o", "c", "z", "o", "n", "o", " ", "l", "i", "m", "i", "t", " ", "z", "a", "p", "y",
    "t", "a", "n", " ", "A", "P", "I", ".", " ", "P", "r", "o", "s", "z", "e", " ", "s", "p", "r",
    "o", "b", "o", "w", "a", "c", " ", "p", "o", "n", "o", "w", "n", "i", "e", " ", "z", "a", " ",
    "k", "i", "l", "k", "a", " ", "m", "i", "n", "u", "t", ".">>

FORMAT_ERROR_MESSAGE ==
  <<"[", "E", "R", "R", "O", "R", "]", " ", "N", "i", "e", "o", "c", "z", "e", "k", "i", "w", "a",
    "n", "y", " ", "f", "o", "r", "m", "a", "t", " ", "o", "d", "p", "o", "w", "i", "e", "d", "z",
    "i", " ", "A", "P", "I", ".">>

COMMUNICATION_ERROR_HEAD ==
  <<"[", "E", "R", "R", "O", "R", "]", " ", "B", "l", "a", "d", " ", "k", "o", "m", "u", "n", "i",
    "k", "a", "c", "j", "i", " ", "z", " ", "A", "P", "I", ":", " ">>

PARSING_ERROR_HEAD ==
  <<"[", "E", "R", "R", "O", "R", "]", " ", "B", "l", "a", "d", " ", "p", "r", "z", "e", "t", "w",
    "a", "r", "z", "a", "n", "i", "a", " ", "o", "d", "p", "o", "w", "i", "e", "d", "z", "i", " ",
    "A", "P", "I", ":", " ">>

\* --------------------------------------------------- backend behaviours
CHOICES == <<"c", "h", "o", "i", "c", "e", "s">>

\* Texts a model can put in choices[0].message.content.
ContentTexts ==
  { <<"m", "i", "d">>,
    <<" ", "S", "e", "n", "i", "o", "r", "\n">>,
    <<"I", "T">>,
    <<"e", "x", "p", "e", "r", "t">>,
    <<"K", "i", "e", "r", "o", "w", "c", "a", " ">>,
    <<>>,
    RATE_LIMITED_PREFIX \o <<" ", "x">>,
    ERROR_PREFIX \o <<" ", "x">> }

ContentValues == {Str(s) : s \in ContentTexts} \cup {None, Num(7)}

Completion(content) ==
  Obj([choices |-> List(<<Obj([message |-> Obj([content |-> content])])>>)])

\* Bodies for which the path choices[0].message.content exists.
WellFormedBodies == {Completion(c) : c \in ContentValues}

\* JSON bodies in which the path is absent.
MalformedJson ==
  { None, Num(1), Str(<<"o", "k">>), Str(CHOICES), List(<<>>), List(<<Str(CHOICES)>>),
    EmptyObj,
    Obj([error |-> Str(<<"x">>)]),
    Obj([choices |-> None]),
    Obj([choices |-> Num(1)]),
    Obj([choices |-> List(<<>>)]),
    Obj([choices |-> Str(<<>>)]),
    Obj([choices |-> Str(<<"a", "b">>)]),
    Obj([choices |-> EmptyObj]),
    Obj([choices |-> Obj([a |-> Num(1)])]),
    Obj([choices |-> List(<<None>>)]),
    Obj([choices |-> List(<<Str(<<"x">>)>>)]),
    Obj([choices |-> List(<<EmptyObj>>)]),
    Obj([choices |-> List(<<Obj([message |-> None])>>)]),
    Obj([choices |-> List(<<Obj([message |-> Str(<<"x">>)])>>)]),
    Obj([choices |-> List(<<Obj([message |-> EmptyObj])>>)]),
    Obj([choices |-> List(<<Obj([message |-> Obj([role |-> Str(<<"a">>)])])>>)]) }

\* A body that is not JSON: response.json() fails with this message.
JsonErrorMessages ==
  { <<"E", "x", "p", "e", "c", "t", "i", "n", "g", " ", "v", "a", "l", "u", "e", ":", " ", "l",
      "i", "n", "e", " ", "1", " ", "c", "o", "l", "u", "m", "n", " ", "1", " ", "(", "c", "h",
      "a", "r", " ", "0", ")">>,
    <<"E", "x", "t", "r", "a", " ", "d", "a", "t", "a", ":", " ", "l", "i", "n", "e", " ", "1",
      " ", "c", "o", "l", "u", "m", "n", " ", "4", "3", "0", " ", "(", "c", "h", "a", "r", " ",
      "4", "2", "9", ")">> }

NotJson(msg) == <<"notjson", msg>>

MalformedBodies == MalformedJson \cup {NotJson(m) : m \in JsonErrorMessages}
Bodies == WellFormedBodies \cup MalformedBodies

Statuses == {100, 200, 201, 302, 404, 429, 500}
Is2xx(status) == 200 <= status /\ status <= 299

\* Reason phrases of the status line (chosen by the server).
Reasons == { <<"O", "K">>, <<"u", "p", "s", "t", "r", "e", "a", "m", " ", "4", "2", "9">> }

\* str(e) of the transport exceptions requests.post raises.
TransportErrorMessages ==
  { <<"R", "e", "a", "d", " ", "t", "i", "m", "e", "d", " ", "o", "u", "t", ".">>,
    <<"C", "o", "n", "n", "e", "c", "t", "i", "o", "n", " ", "r", "e", "f", "u", "s", "e", "d",
      " ", "b", "y", " ", "<", "H", "T", "T", "P", "S", "C", "o", "n", "n", "e", "c", "t", "i",
      "o", "n", " ", "o", "b", "j", "e", "c", "t", " ", "a", "t", " ", "0", "x", "7", "f", "4",
      "2", "9", "0", ">">> }

HttpAnswer(status, reason, body) ==
  [kind |-> "http", status |-> status, reason |-> reason, body |-> body]
TransportFailure(msg) ==
  [kind |-> "exception", status |-> 0, reason |-> msg, body |-> None]

Answers ==
  {HttpAnswer(s, r, b) : s \in Statuses, r \in Reasons, b \in Bodies}
    \cup {TransportFailure(m) : m \in TransportErrorMessages}

\* The class response.json() raises for a non-JSON body: requests >= 2.27
\* raises requests.exceptions.JSONDecodeError (a RequestException), older
\* releases raise json.JSONDecodeError.
JsonErrorClasses == {"requests.JSONDecodeError", "json.JSONDecodeError"}

\* ------------------------------------------------------------ gateway
\* Mutant: the credential check is skipped.
ApiKeyMissing_never(key) == FALSE

\* `if not OPENROUTER_API_KEY` (line 34)
ApiKeyMissing(key) == key = <<>>

CONFIG_ERROR_MESSAGE == "OpenRouter API key not set in environment variables"

\* Variant: the user message is put before the system message.
Request_user_first(key, prompt, max_tokens) ==
  [url |-> OPENROUTER_BASE_URL,
   headers |-> headers(key),
   json |-> [model |-> MODEL,
             messages |-> << [role |-> "user", content |-> prompt],
                             [role |-> "system", content |-> SYSTEM_INSTRUCTION] >>,
             max_tokens |-> max_tokens],
   timeout |-> TIMEOUT]

\* Variant: a gateway that resends the earlier user messages of the caller.
Request_with_history(key, prompt, max_tokens) ==
  [url |-> OPENROUTER_BASE_URL,
   headers |-> headers(key),
   json |-> [model |-> MODEL,
             messages |-> << [role |-> "system", content |-> SYSTEM_INSTRUCTION] >>
                            \o [i \in 1..Len(prev.sent) |-> prev.sent[i].json.messages[2]]
                            \o << [role |-> "user", content |-> prompt] >>,
             max_tokens |-> max_tokens],
   timeout |-> TIMEOUT]

\* The arguments of requests.post (lines 38-49).
Request(key, prompt, max_tokens) ==
  [url |-> OPENROUTER_BASE_URL,
   headers |-> headers(key),
   json |-> [model |-> MODEL,
             messages |-> << [role |-> "system", content |-> SYSTEM_INSTRUCTION],
                             [role |-> "user", content |-> prompt] >>,
             max_tokens |-> max_tokens],
   timeout |-> TIMEOUT]

\* `response.status_code == 429` (line 52)
IsRateLimitStatus(status) == status = 429

\* response.raise_for_status() raises HTTPError for 4xx and 5xx only.
RaisesForStatus(status) == 400 <= status /\ status < 600

\* str(e) of the HTTPError raised by raise_for_status.
HTTPErrorMessage(status, reason) ==
  StatusText(status)
    \o (IF status < 500 THEN <<" ", "C", "l", "i", "e", "n", "t", " ", "E", "r", "r", "o", "r", ":", " ">> ELSE <<" ", "S", "e", "r", "v", "e", "r", " ", "E", "r", "r", "o", "r", ":", " ">>)
    \o reason \o <<" ", "f", "o", "r", " ", "u", "r", "l", ":", " ">> \o OPENROUTER_BASE_URL

KeyRepr(key) ==
  CASE key = "choices" -> <<"'", "c", "h", "o", "i", "c", "e", "s", "'">>
    [] key = "message" -> <<"'", "m", "e", "s", "s", "a", "g", "e", "'">>
    [] key = "content" -> <<"'", "c", "o", "n", "t", "e", "n", "t", "'">>

\* x[key] for a str key: dict lookup, TypeError on anything else.
GetItem(x, key) ==
  IF Tag(x) = "obj"
  THEN IF key \in DOMAIN Val(x) THEN Return(Val(x)[key]) ELSE Raise("KeyError", KeyRepr(key))
  ELSE Raise("TypeError", <<>>)

\* x[0] when len(x) > 0
First(x) ==
  CASE Tag(x) = "list" -> Return(Val(x)[1])
    [] Tag(x) = "str" -> Return(Str(<<Val(x)[1]>>))
    [] Tag(x) = "obj" -> Raise("KeyError", <<"0">>)

HasLen(x) == Tag(x) \in {"list", "str", "obj"}

\* len(x)
PyLen(x) == IF Tag(x) = "obj" THEN Cardinality(DOMAIN Val(x)) ELSE Len(Val(x))

\* `'choices' in result`, for a result that supports `in`
ChoicesIn(result) ==
  CASE Tag(result) = "obj" -> "choices" \in DOMAIN Val(result)
    [] Tag(result) = "list" -> \E i \in 1..Len(Val(result)) : Val(result)[i] = Str(CHOICES)
    [] Tag(result) = "str" -> StrContains(CHOICES, Val(result))

\* Mutant: the content is trimmed before it is returned.
ContentOf_stripped(message) ==
  LET c == GetItem(message, "content") IN
  IF c.k = "return" /\ Tag(c.v) = "str" THEN Return(Str(Strip(Val(c.v)))) ELSE c

\* `['content']` of line 64: the value is returned as it is.
ContentOf(message) == GetItem(message, "content")

\* Lines 63-67 on the decoded JSON value.
ExtractContent(result) ==
  IF ~HasLen(result) THEN Raise("TypeError", <<>>)
  ELSE IF ~ChoicesIn(result) THEN Return(Str(FORMAT_ERROR_MESSAGE))
  ELSE LET choices == GetItem(result, "choices") IN
    IF choices.k = "raise" THEN choices
    ELSE IF ~HasLen(choices.v) THEN Raise("TypeError", <<>>)
    ELSE IF PyLen(choices.v) = 0 THEN Return(Str(FORMAT_ERROR_MESSAGE))
    ELSE LET first == First(choices.v) IN
      IF first.k = "raise" THEN first
      ELSE LET message == GetItem(first.v, "message") IN
        IF message.k = "raise" THEN message
        ELSE ContentOf(message.v)

\* Mutant: the body is read before the status is looked at.
TryBlock_body_first(answer, jsonErrorClass) ==
  IF answer.kind = "exception" THEN Raise("RequestException", answer.reason)
  ELSE IF answer.body \in WellFormedBodies THEN ExtractContent(answer.body)
  ELSE IF IsRateLimitStatus(answer.status) THEN Return(Str(RATE_LIMITED_MESSAGE))
  ELSE IF RaisesForStatus(answer.status)
       THEN Raise("HTTPError", HTTPErrorMessage(answer.status, answer.reason))
  ELSE IF Tag(answer.body) = "notjson" THEN Raise(jsonErrorClass, Val(answer.body))
  ELSE ExtractContent(answer.body)

\* Mutant: the 429 branch returns the malformed-response sentinel.
TryBlock_wrong_sentinel(answer, jsonErrorClass) ==
  IF answer.kind = "exception" THEN Raise("RequestException", answer.reason)
  ELSE IF IsRateLimitStatus(answer.status) THEN Return(Str(FORMAT_ERROR_MESSAGE))
  ELSE IF RaisesForStatus(answer.status)
       THEN Raise("HTTPError", HTTPErrorMessage(answer.status, answer.reason))
  ELSE IF Tag(answer.body) = "notjson" THEN Raise(jsonErrorClass, Val(answer.body))
  ELSE ExtractContent(answer.body)

\* The body of the try block after requests.post has answered (lines 49-67).
TryBlock(answer, jsonErrorClass) ==
  IF answer.kind = "exception" THEN Raise("RequestException", answer.reason)
  ELSE IF IsRateLimitStatus(answer.status) THEN Return(Str(RATE_LIMITED_MESSAGE))
  ELSE IF RaisesForStatus(answer.status)
       THEN Raise("HTTPError", HTTPErrorMessage(answer.status, answer.reason))
  ELSE IF Tag(answer.body) = "notjson" THEN Raise(jsonErrorClass, Val(answer.body))
  ELSE ExtractContent(answer.body)

\* Subclasses of requests.exceptions.RequestException.
RequestExceptionClasses == {"RequestException", "HTTPError", "requests.JSONDecodeError"}

\* `except requests.exceptions.RequestException` (lines 69-73)
OnRequestException(msg) ==
  IF StrContains(<<"4", "2", "9">>, msg)
  THEN Return(Str(RATE_LIMITED_MESSAGE))
  ELSE Return(Str(COMMUNICATION_ERROR_HEAD \o msg))

\* `except (KeyError, IndexError, json.JSONDecodeError)` (lines 75-77)
ParseErrorClasses == {"KeyError", "IndexError", "json.JSONDecodeError"}

OnParseError(msg) == Return(Str(PARSING_ERROR_HEAD \o msg))

\* What send_api_request hands to its caller once the POST has ended.
GatewayResult(answer, jsonErrorClass) ==
  LET o == TryBlock(answer, jsonErrorClass) IN
  IF o.k = "raise" /\ Tag(o.v) \in RequestExceptionClasses THEN OnRequestException(Val(o.v))
  ELSE IF o.k = "raise" /\ Tag(o.v) \in ParseErrorClasses THEN OnParseError(Val(o.v))
  ELSE o

\* Mutant: a 429 answer makes the call post the request again.
PostsAfterAnswer_retry(log, request, answer, retry_count) ==
  IF answer.kind = "http" /\ answer.status = 429 /\ retry_count > 0
  THEN Append(log, request)
  ELSE log

\* The requests issued by one send_api_request call once its POST has been
\* answered: every branch of lines 52-77 returns, none posts again.
PostsAfterAnswer(log, request, answer, retry_count) == log

\* ---------------------------------------------------------- detectors
\* The slice [:2000] of the prompt templates.
PROMPT_TEXT_LIMIT == 2000

\* Variant: no slice.
Truncate_keep_all(text) == text

Truncate(text) ==
  IF Len(text) <= PROMPT_TEXT_LIMIT THEN text ELSE SubSeq(text, 1, PROMPT_TEXT_LIMIT)

\* The f-string prompts: the fixed template text is one token per fragment,
\* the embedded input text is kept character by character.
SeniorityPrompt(cv_text, job_description) ==
  <<"TASK: seniority", "CV:">> \o Truncate(cv_text) \o <<"...", "Opis stanowiska:">>
    \o Truncate(job_description) \o <<"...", "junior, mid lub senior">>

JobTypePrompt(job_description) ==
  <<"TASK: typ pracy", "Opis stanowiska:">> \o Truncate(job_description)
    \o <<"...", "kod typu pracy">>

SpecificRolePrompt(job_description) ==
  <<"TASK: konkretna rola", "Opis stanowiska:">> \o Truncate(job_description)
    \o <<"...", "nazwa konkretnej roli">>

IndustryPrompt(job_description) ==
  <<"TASK: branza", "Opis stanowiska:">> \o Truncate(job_description)
    \o <<"...", "kod branzy">>

DETECTOR_MAX_TOKENS == 10

\* Mutant: the answer is trimmed but not lower-cased.
Normalize_no_lower(response) == Strip(response)

\* `response.strip().lower()`
Normalize(response) == Lower(Strip(response))

JUNIOR == <<"j", "u", "n", "i", "o", "r">>
MID == <<"m", "i", "d">>
SENIOR == <<"s", "e", "n", "i", "o", "r">>
OFFICE == <<"o", "f", "f", "i", "c", "e">>
GENERAL == <<"g", "e", "n", "e", "r", "a", "l">>
SPECJALISTA == <<"s", "p", "e", "c", "j", "a", "l", "i", "s", "t", "a">>

SeniorityLevels == {JUNIOR, MID, SENIOR}

\* Variant: the validation list has a label the template table lacks.
valid_job_types_wider ==
  { <<"p", "h", "y", "s", "i", "c", "a", "l">>,
    <<"t", "e", "c", "h", "n", "i", "c", "a", "l">>,
    <<"o", "f", "f", "i", "c", "e">>,
    <<"p", "r", "o", "f", "e", "s", "s", "i", "o", "n", "a", "l">>,
    <<"c", "r", "e", "a", "t", "i", "v", "e">>,
    <<"i", "t">>,
    <<"e", "x", "p", "e", "r", "t">> }

valid_job_types ==
  { <<"p", "h", "y", "s", "i", "c", "a", "l">>,
    <<"t", "e", "c", "h", "n", "i", "c", "a", "l">>,
    <<"o", "f", "f", "i", "c", "e">>,
    <<"p", "r", "o", "f", "e", "s", "s", "i", "o", "n", "a", "l">>,
    <<"c", "r", "e", "a", "t", "i", "v", "e">>,
    <<"i", "t">> }

valid_industries ==
  { <<"i", "t">>,
    <<"f", "i", "n", "a", "n", "c", "e">>,
    <<"m", "a", "r", "k", "e", "t", "i", "n", "g">>,
    <<"h", "e", "a", "l", "t", "h", "c", "a", "r", "e">>,
    <<"h", "r">>,
    <<"e", "d", "u", "c", "a", "t", "i", "o", "n">>,
    <<"e", "n", "g", "i", "n", "e", "e", "r", "i", "n", "g">>,
    <<"t", "r", "a", "n", "s", "p", "o", "r", "t">>,
    <<"r", "e", "t", "a", "i", "l">>,
    <<"l", "e", "g", "a", "l">>,
    <<"c", "r", "e", "a", "t", "i", "v", "e">>,
    <<"g", "e", "n", "e", "r", "a", "l">> }

\* Lines 107-119.  `gw` is the outcome of send_api_request; a value without
\* .strip() raises AttributeError inside the try block.
detect_seniority_level(gw) ==
  IF gw.k = "raise" \/ Tag(gw.v) # "str" THEN Return(Str(MID))
  ELSE LET response == Normalize(Val(gw.v)) IN
    IF response \in SeniorityLevels THEN Return(Str(response)) ELSE Return(Str(MID))

\* Mutant: an answer outside the list is returned as it came.
detect_job_type_raw(gw) ==
  IF gw.k = "raise" \/ Tag(gw.v) # "str" THEN Return(Str(OFFICE))
  ELSE LET response == Lower(Strip(Val(gw.v))) IN
    IF response \in valid_job_types THEN Return(Str(response)) ELSE Return(gw.v)

\* Lines 142-156.
detect_job_type(gw) ==
  IF gw.k = "raise" \/ Tag(gw.v) # "str" THEN Return(Str(OFFICE))
  ELSE LET response == Normalize(Val(gw.v)) IN
    IF response \in valid_job_types THEN Return(Str(response)) ELSE Return(Str(OFFICE))

\* Mutant: an exception of send_api_request is not caught.
detect_specific_role_propagating(gw) ==
  IF gw.k = "raise" THEN gw
  ELSE IF Tag(gw.v) # "str" THEN Return(Str(SPECJALISTA))
  ELSE Return(Str(Lower(Strip(Val(gw.v)))))

\* Lines 183-188.
detect_specific_role(gw) ==
  IF gw.k = "raise" \/ Tag(gw.v) # "str" THEN Return(Str(SPECJALISTA))
  ELSE Return(Str(Normalize(Val(gw.v))))

\* Mutant: the answer is returned without the membership test.
detect_industry_unvalidated(gw) ==
  IF gw.k = "raise" \/ Tag(gw.v) # "str" THEN Return(Str(GENERAL))
  ELSE Return(Str(Normalize(Val(gw.v))))

\* Lines 217-233.
detect_industry(gw) ==
  IF gw.k = "raise" \/ Tag(gw.v) # "str" THEN Return(Str(GENERAL))
  ELSE LET response == Normalize(Val(gw.v)) IN
    IF response \in valid_industries THEN Return(Str(response)) ELSE Return(Str(GENERAL))

Detectors ==
  {"detect_seniority_level", "detect_job_type", "detect_specific_role", "detect_industry"}

DetectorPrompt(fn, cv_text, job_description) ==
  CASE fn = "detect_seniority_level" -> SeniorityPrompt(cv_text, job_description)
    [] fn = "detect_job_type" -> JobTypePrompt(job_description)
    [] fn = "detect_specific_role" -> SpecificRolePrompt(job_description)
    [] fn = "detect_industry" -> IndustryPrompt(job_description)

DetectorResult(fn, gw) ==
  CASE fn = "detect_seniority_level" -> detect_seniority_level(gw)
    [] fn = "detect_job_type" -> detect_job_type(gw)
    [] fn = "detect_specific_role" -> detect_specific_role(gw)
    [] fn = "detect_industry" -> detect_industry(gw)

\* ---------------------------------------------------- guidance lookups
\* The texts of the tables are named by their first line; the diacritics are
\* written in ASCII.
\* dict.get(key, default)
DictGet(d, key, default) == IF key \in DOMAIN d THEN d[key] ELSE default

\* The truth value of an optional str argument (None and "" are false).
Truthy(x) == Tag(x) = "str" /\ Val(x) # <<>>

UpperChar(c) ==
  IF \E i \in 1..Len(LowerChars) : LowerChars[i] = c
  THEN UpperChars[CHOOSE i \in 1..Len(LowerChars) : LowerChars[i] = c]
  ELSE c

\* str.upper()
Upper(s) == [i \in 1..Len(s) |-> UpperChar(s[i])]

\* Lines 239-350.
role_competencies ==
  <<"k", "i", "e", "r", "o", "w", "c", "a">> :>
    [certifications |->
       <<"Prawo jazdy kategorii B/C/C+E/D",
         "Karta kierowcy",
         "Swiadectwo kwalifikacji zawodowej",
         "Zaswiadczenie o niekaralnosci",
         "Certyfikat ADR (przewoz materialow niebezpiecznych)",
         "Uprawnienia HDS (hydrauliczny dzwig samochodowy)">>,
     skills |->
       <<"Znajomosc przepisow ruchu drogowego",
         "Obsluga tachografu cyfrowego",
         "Planowanie optymalnych tras",
         "Dbalosc o stan techniczny pojazdu",
         "Zabezpieczanie ladunku",
         "Prowadzenie dokumentacji transportowej",
         "Obsluga GPS i systemow nawigacyjnych",
         "Podstawowa znajomosc mechaniki pojazdowej">>,
     achievements |->
       <<"Przejechanych X kilometrow bez wypadku",
         "Utrzymanie zuzycia paliwa X% ponizej sredniej firmowej",
         "Terminowosc dostaw na poziomie X%",
         "Skrocenie czasu dostawy o X% dzieki optymalizacji trasy",
         "Bezbledne prowadzenie dokumentacji przez X miesiecy",
         "Realizacja X dostaw miesiecznie",
         "Obsluga X stalych klientow z najwyzszymi ocenami satysfakcji">>,
     language_style |-> "Profesjonalny, konkretny, z naciskiem na bezpieczenstwo i odpowiedzialnosc"] @@
  <<"m", "a", "g", "a", "z", "y", "n", "i", "e", "r">> :>
    [certifications |->
       <<"Uprawnienia na wozki widlowe",
         "Uprawnienia na suwnice",
         "Certyfikat BHP",
         "Uprawnienia do obslugi systemow WMS">>,
     skills |->
       <<"Obsluga skanerow i czytnikow kodow",
         "Kompletacja zamowien",
         "Inwentaryzacja",
         "Obsluga systemow magazynowych (WMS)",
         "Przyjmowanie i wydawanie towaru",
         "Kontrola jakosciowa produktow",
         "Pakowanie i zabezpieczanie towaru">>,
     achievements |->
       <<"Zwiekszenie wydajnosci kompletacji o X%",
         "Zmniejszenie bledow w zamowieniach o X%",
         "Wdrozenie usprawnien w procesie X, co skrocilo czas o Y%",
         "Bezbledne przeprowadzenie X inwentaryzacji",
         "Utrzymanie 100% dokladnosci w zarzadzaniu zapasami przez X miesiecy",
         "Obsluga X palet dziennie">>,
     language_style |-> "Precyzyjny, operacyjny, podkreslajacy dokladnosc i efektywnosc"] @@
  <<"p", "r", "o", "g", "r", "a", "m", "i", "s", "t", "a">> :>
    [certifications |->
       <<"Certyfikaty Microsoft/AWS/Google Cloud",
         "Certyfikaty jezykowe (Java, Python)",
         "Certyfikaty Agile/Scrum",
         "Certyfikat ITIL",
         "Certyfikat cyberbezpieczenstwa">>,
     skills |->
       <<"Znajomosc technologii X, Y, Z",
         "Tworzenie czystego, testowalnego kodu",
         "Projektowanie architektury systemow",
         "Testowanie i debugowanie aplikacji",
         "Praca z systemami kontroli wersji",
         "Wspolpraca w zespole programistycznym",
         "Code review",
         "Ciagla integracja/wdrazanie (CI/CD)">>,
     achievements |->
       <<"Optymalizacja wydajnosci systemu X o Y%",
         "Skrocenie czasu ladowania aplikacji o X%",
         "Zredukowanie liczby bledow o X% poprzez wdrozenie testow automatycznych",
         "Wdrozenie X nowych funkcjonalnosci w ciagu Y miesiecy",
         "Przeprowadzenie refaktoryzacji kodu, co zmniejszylo jego zlozonosc o X%",
         "Stworzenie rozwiazania, ktore zaoszczedzilo firmie X zl rocznie">>,
     language_style |-> "Techniczny, analityczny, z wykorzystaniem specjalistycznej terminologii IT"] @@
  <<"s", "p", "r", "z", "e", "d", "a", "w", "c", "a">> :>
    [certifications |->
       <<"Certyfikat obslugi klienta",
         "Certyfikat sprzedazowy",
         "Uprawnienia do obslugi kasy fiskalnej",
         "Certyfikat z technik negocjacji">>,
     skills |->
       <<"Profesjonalna obsluga klienta",
         "Znajomosc technik sprzedazy",
         "Obsluga kasy fiskalnej i terminali platniczych",
         "Zarzadzanie zapasami na polkach",
         "Przygotowywanie ekspozycji produktow",
         "Rozwiazywanie problemow klientow",
         "Realizacja planow sprzedazowych">>,
     achievements |->
       <<"Przekroczenie celu sprzedazowego o X%",
         "Zwiekszenie sredniej wartosci koszyka o X%",
         "Pozyskanie X nowych stalych klientow",
         "Utrzymanie najwyzszego wskaznika satysfakcji klienta przez X miesiecy",
         "Przeprowadzenie X skutecznych akcji promocyjnych",
         "Wzrost sprzedazy w kategorii X o Y%">>,
     language_style |-> "Nastawiony na klienta, entuzjastyczny, przekonujacy"]

\* Lines 356-361.
GENERIC_COMPETENCIES ==
  [certifications |-> <<"Certyfikaty branzowe", "Szkolenia specjalistyczne">>,
   skills |-> <<"Umiejetnosci interpersonalne", "Organizacja pracy", "Rozwiazywanie problemow">>,
   achievements |-> <<"Przekroczenie celow o X%", "Optymalizacja procesow", "Realizacja projektow">>,
   language_style |-> "Profesjonalny, rzeczowy, zorientowany na wyniki"]

get_role_specific_competencies(role) ==
  IF role \notin DOMAIN role_competencies THEN GENERIC_COMPETENCIES
  ELSE role_competencies[role]

\* Lines 369-496.
templates ==
  <<"p", "h", "y", "s", "i", "c", "a", "l">> :> "STRUKTURA CV DLA PRACY FIZYCZNEJ:" @@
  <<"t", "e", "c", "h", "n", "i", "c", "a", "l">> :> "STRUKTURA CV DLA PRACY TECHNICZNEJ:" @@
  <<"o", "f", "f", "i", "c", "e">> :> "STRUKTURA CV DLA PRACY BIUROWEJ:" @@
  <<"p", "r", "o", "f", "e", "s", "s", "i", "o", "n", "a", "l">> :> "STRUKTURA CV DLA PRACY SPECJALISTYCZNEJ:" @@
  <<"c", "r", "e", "a", "t", "i", "v", "e">> :> "STRUKTURA CV DLA PRACY KREATYWNEJ:" @@
  <<"i", "t">> :> "STRUKTURA CV DLA PRACY W IT:"

\* Variant: an unknown job type gets the first template.
get_job_type_template_first(job_type) ==
  DictGet(templates, job_type, templates[<<"p", "h", "y", "s", "i", "c", "a", "l">>])

get_job_type_template(job_type) == DictGet(templates, job_type, templates[OFFICE])

\* Lines 505-510.
GENERIC_INDUSTRY_GUIDANCE == "- Uzyj uniwersalnego jezyka biznesowego"

\* Lines 513-592.
industry_prompts ==
  <<"i", "t">> :> "- Uzyj technicznych terminow branzowych i nazw technologii" @@
  <<"f", "i", "n", "a", "n", "c", "e">> :> "- Zastosuj precyzyjny jezyk finansowy i terminologie branzowa" @@
  <<"m", "a", "r", "k", "e", "t", "i", "n", "g">> :> "- Uzyj dynamicznego, kreatywnego jezyka z branzowym slownictwem marketingowym" @@
  <<"h", "e", "a", "l", "t", "h", "c", "a", "r", "e">> :> "- Zastosuj profesjonalna terminologie medyczna" @@
  <<"h", "r">> :> "- Zastosuj terminologie HR i zarzadzania talentami" @@
  <<"e", "d", "u", "c", "a", "t", "i", "o", "n">> :> "- Uzyj terminologii edukacyjnej i pedagogicznej" @@
  <<"e", "n", "g", "i", "n", "e", "e", "r", "i", "n", "g">> :> "- Zastosuj precyzyjny jezyk inzynieryjny i techniczny" @@
  <<"t", "r", "a", "n", "s", "p", "o", "r", "t">> :> "- Zastosuj precyzyjny jezyk transportowy i logistyczny" @@
  <<"r", "e", "t", "a", "i", "l">> :> "- Uzyj jezyka zorientowanego na klienta i sprzedaz" @@
  <<"l", "e", "g", "a", "l">> :> "- Zastosuj precyzyjny jezyk prawniczy i formalny styl" @@
  <<"c", "r", "e", "a", "t", "i", "v", "e">> :> "- Uzyj kreatywnego, dynamicznego jezyka"

\* Lines 599-619.
seniority_guidance ==
  <<"j", "u", "n", "i", "o", "r">> :> "- Podkresl zapal do nauki i szybkiego przyswajania wiedzy" @@
  <<"m", "i", "d">> :> "- Zbalansuj doswiadczenie z potencjalem rozwojowym" @@
  <<"s", "e", "n", "i", "o", "r">> :> "- Uwypuklij strategiczne myslenie i szersza perspektywe biznesowa"

RECURSIVE Bullets(_)
\* for item in items: text += f"- {item}\n"
Bullets(items) ==
  IF items = <<>> THEN <<>> ELSE <<"- ", Head(items), "\n">> \o Bullets(Tail(items))

\* job_type and specific_role are optional (None by default).
get_industry_specific_prompt(industry, seniority, job_type, specific_role) ==
  LET industry_guidance ==
        IF industry \in DOMAIN industry_prompts THEN industry_prompts[industry]
        ELSE GENERIC_INDUSTRY_GUIDANCE
      job_type_guidance ==
        IF Truthy(job_type)
        THEN <<"WSKAZOWKI DOTYCZACE TYPU PRACY">> \o Upper(Val(job_type))
               \o <<get_job_type_template(Val(job_type))>>
        ELSE <<>>
      role_guidance ==
        IF Truthy(specific_role)
        THEN LET competencies == get_role_specific_competencies(Val(specific_role)) IN
             <<"WYMAGANE KOMPETENCJE DLA ROLI:">> \o Upper(Val(specific_role))
               \o <<"Sugerowane certyfikaty i uprawnienia:">> \o Bullets(competencies.certifications)
               \o <<"Kluczowe umiejetnosci dla tej roli:">> \o Bullets(competencies.skills)
               \o <<"Typowe osiagniecia w tej roli:">> \o Bullets(competencies.achievements)
               \o <<"Sugerowany styl jezyka:", competencies.language_style>>
        ELSE <<>>
  IN <<industry_guidance, "\n", DictGet(seniority_guidance, seniority, seniority_guidance[MID])>>
       \o job_type_guidance \o role_guidance

\* Lines 666-689.
prompts ==
  <<"j", "u", "n", "i", "o", "r">> :> "Nawet dla juniora dodaj mierzalne osiagniecia:" @@
  <<"m", "i", "d">> :> "Wzbogac CV o konkretne, mierzalne wyniki:" @@
  <<"s", "e", "n", "i", "o", "r">> :> "Umiesc strategiczne, biznesowe mierzalne osiagniecia:"

get_measurable_achievements_prompt(seniority) == DictGet(prompts, seniority, prompts[MID])

\* Lines 697-704.
base_prompt == "Zapewnij optymalna strukture CV:"

\* Lines 706-731.
industry_specific ==
  <<"i", "t">> :> "- Dodaj sekcje umiejetnosci technicznych na poczatku, kategoryzujac je" @@
  <<"f", "i", "n", "a", "n", "c", "e">> :> "- Uzyj precyzyjnych naglowkow sekcji (np. 'Doswiadczenie w ksiegowosci zarzadczej')" @@
  <<"m", "a", "r", "k", "e", "t", "i", "n", "g">> :> "- Uzyj kreatywnych, ale jasnych naglowkow sekcji" @@
  <<"c", "r", "e", "a", "t", "i", "v", "e">> :> "- Zastosuj przejrzysty uklad podkreslajacy portfolio"

\* Lines 733-752.
language_style ==
  <<"j", "u", "n", "i", "o", "r">> :> "- Uzyj prostego, bezposredniego jezyka" @@
  <<"m", "i", "d">> :> "- Zbalansuj profesjonalny jezyk z przystepnoscia" @@
  <<"s", "e", "n", "i", "o", "r">> :> "- Stosuj zaawansowany jezyk biznesowy i branzowy"

get_structural_quality_control_prompt(seniority, industry) ==
  LET industry_guidance == DictGet(industry_specific, industry, "")
      style_guidance == DictGet(language_style, seniority, language_style[MID])
  IN <<base_prompt, "\n", industry_guidance, "\n", style_guidance>>

Lookups ==
  {"get_role_specific_competencies", "get_job_type_template", "get_industry_specific_prompt",
   "get_measurable_achievements_prompt", "get_structural_quality_control_prompt"}

\* --------------------------------------------------------- generators
\* generate_recruiter_feedback, line 1223: the words of the list that occur
\* in the lower-cased CV are counted (the diacritics are written in ASCII).
POLISH_WORDS ==
  {<<"j", "e", "s", "t", "e", "m">>,
   <<"d", "o", "s", "w", "i", "a", "d", "c", "z", "e", "n", "i", "e">>,
   <<"u", "m", "i", "e", "j", "e", "t", "n", "o", "s", "c", "i">>,
   <<"w", "y", "k", "s", "z", "t", "a", "l", "c", "e", "n", "i", "e">>,
   <<"p", "r", "a", "c", "a">>,
   <<"s", "t", "a", "n", "o", "w", "i", "s", "k", "o">>,
   <<"f", "i", "r", "m", "a">>,
   <<"u", "n", "i", "w", "e", "r", "s", "y", "t", "e", "t">>,
   <<"s", "z", "k", "o", "l", "a">>,
   <<"o", "r", "a", "z">>,
   <<"j", "e", "z", "y", "k">>,
   <<"p", "o", "l", "s", "k", "i">>}

IsPolish(cv_text) ==
  Cardinality({word \in POLISH_WORDS : StrContains(Lower(word), Lower(cv_text))}) > 3

\* Lines 1218-1220: the context block exists only for a non-empty description.
Context(job_description) ==
  IF job_description # <<>>
  THEN <<"Job description for context:", "\n">> \o job_description
  ELSE <<>>

FeedbackPrompt(cv_text, job_description) ==
  <<"TASK: rekruter",
    IF IsPolish(cv_text) THEN "UWAGA: TO CV JEST W JEZYKU POLSKIM" ELSE "This CV appears to be in English",
    "Uwzglednij: 1-5">>
    \o Context(job_description) \o <<"CV:">> \o cv_text \o <<"Odpowiedz w tym samym jezyku">>

\* Variant: the first prompt is the one that is sent.
CoverLetterPrompt_first(cv_text, job_description, company_name, company_culture) ==
  <<"TASK: list motywacyjny", "Firma:">> \o company_name
    \o <<"Kultura organizacyjna:">> \o company_culture

\* generate_cover_letter assigns `prompt` twice (lines 1255 and 1267); the
\* second assignment is the one that is sent.
CoverLetterPrompt(cv_text, job_description, company_name, company_culture) ==
  LET first == <<"TASK: list motywacyjny", "Firma:">> \o company_name
                 \o <<"Kultura organizacyjna:">> \o company_culture
      second == <<"TASK: cover letter", "Job description:">> \o job_description
                  \o <<"CV:">> \o cv_text \o <<"Return only the cover letter">>
  IN second

TranslatePrompt(cv_text) ==
  <<"TASK: translate to English", "Original CV:">> \o cv_text
    \o <<"Return only the translated CV">>

CareersPrompt(cv_text) ==
  <<"TASK: alternative careers", "CV:">> \o cv_text \o <<"Provide a structured analysis">>

RECURSIVE RolesText(_)
\* Line 1341: "\n".join([f"- {role}" for role in roles]).
RolesText(roles) ==
  IF roles = <<>> THEN <<>>
  ELSE IF Len(roles) = 1 THEN <<"-", " ">> \o roles[1]
  ELSE <<"-", " ">> \o roles[1] \o <<"\n">> \o RolesText(Tail(roles))

MultiVersionsPrompt(cv_text, roles) ==
  <<"TASK: wersje CV", "Role:">> \o RolesText(roles) \o <<"Wytyczne", "CV:">> \o cv_text
    \o <<"Zwroc wersje CV">>

\* The prompt of optimize_cv_with_keywords that is sent (lines 815-904).
OptimizePrompt(cv_text, job_description, specific_role) ==
  <<"TASK: analiza CV", "Dla kandydata bez doswiadczenia w">> \o specific_role
    \o <<"ZASADY", "ORYGINALNE CV:">> \o cv_text \o <<"OPIS STANOWISKA:">> \o job_description
    \o <<"Zwroc tylko zoptymalizowane CV">>

SingleGenerators ==
  {"generate_recruiter_feedback", "generate_cover_letter", "translate_to_english",
   "suggest_alternative_careers", "generate_multi_versions"}

\* optimize_cv (line 1212) only calls optimize_cv_with_keywords.
PipelineOps == {"optimize_cv_with_keywords", "optimize_cv"}

Generators == SingleGenerators \cup PipelineOps

OPTIMIZE_MAX_TOKENS == 3000

GeneratorMaxTokens(fn) ==
  CASE fn = "generate_recruiter_feedback" -> 2000
    [] fn = "generate_cover_letter" -> 2000
    [] fn = "translate_to_english" -> 2500
    [] fn = "suggest_alternative_careers" -> 2000
    [] fn = "generate_multi_versions" -> 3500
    [] fn \in PipelineOps -> OPTIMIZE_MAX_TOKENS

GeneratorPrompt(c) ==
  CASE c.fn = "generate_recruiter_feedback" -> FeedbackPrompt(c.cv_text, c.job_description)
    [] c.fn = "generate_cover_letter" ->
         CoverLetterPrompt(c.cv_text, c.job_description, c.company_name, c.company_culture)
    [] c.fn = "translate_to_english" -> TranslatePrompt(c.cv_text)
    [] c.fn = "suggest_alternative_careers" -> CareersPrompt(c.cv_text)
    [] c.fn = "generate_multi_versions" -> MultiVersionsPrompt(c.cv_text, c.roles)

\* Variants: a generator that hides a sentinel, one that swallows an error.
GeneratorResult_masked(fn, gw) ==
  IF gw.k = "return" /\ Tag(gw.v) = "str" /\ IsPrefix(<<"[">>, Val(gw.v))
  THEN Return(Str(<<>>)) ELSE gw

GeneratorResult_swallow(fn, gw) ==
  IF gw.k = "raise" THEN Return(Str(<<>>)) ELSE gw

\* Every generator ends with `return send_api_request(prompt, ...)` outside
\* any try block: what the gateway returns or raises is the generator's result.
GeneratorResult(fn, gw) == gw


\* ------------------------------------------------------------- inputs
\* A CV in which four of the listed Polish words occur.
PolishCv ==
  <<"P", "r", "a", "c", "a", ",", " ", "f", "i", "r", "m", "a">>
    \o <<" ", "o", "r", "a", "z", " ", "j", "e", "z", "y", "k">>

Texts == UNION {[1..n -> {"a"}] : n \in 0..MaxTextLen}
CvTexts == Texts \cup {PolishCv}

\* keywords_data of optimize_cv_with_keywords: None (the default), empty, populated.
KeywordsValues == {None, EmptyObj, Obj([high |-> List(<<Str(<<"a">>)>>)])}
CompanyTexts == {<<>>, <<"c">>}

\* Role lists of generate_multi_versions.
MaxRoles == 2
RoleLists == UNION {[1..n -> {<<"r">>}] : n \in 0..MaxRoles}

\* The backend's answers to the detector calls of optimize_cv_with_keywords:
\* a label, or a timeout.
DetectionAnswers ==
  {HttpAnswer(200, <<"O", "K">>, Completion(Str(<<"I", "T">>))),
   TransportFailure(<<"R", "e", "a", "d", " ", "t", "i", "m", "e", "d", " ", "o", "u", "t", ".">>)}

\* Its answers to the generation call: also a rate limit and a null content.
GenerationAnswers ==
  DetectionAnswers
    \cup {HttpAnswer(429, <<"O", "K">>, EmptyObj),
          HttpAnswer(200, <<"O", "K">>, Completion(None))}


\* Variant: the job type is detected before the industry.
DetectionBlock_reordered ==
  <<"detect_seniority_level", "detect_job_type", "detect_industry", "detect_specific_role">>

\* ---------------------------------- optimize_cv_with_keywords (759-906)
\* The detector calls of one detection block, in order (lines 768-771; the
\* same four at 808-811).
DetectionBlock ==
  <<"detect_seniority_level", "detect_industry", "detect_job_type", "detect_specific_role">>

\* Variant: a single detection block.
OptimizeDetections_once == DetectionBlock

OptimizeDetections == DetectionBlock \o DetectionBlock

\* What the except clause of a block assigns (lines 774 and 813).
FirstBlockDefaults ==
  << <<"m", "i", "d">>, GENERAL, OFFICE, <<"s", "p", "e", "c", "i", "a", "l", "i", "s", "t">> >>
SecondBlockDefaults == <<JUNIOR, GENERAL, OFFICE, SPECJALISTA>>

\* The labels assigned after the detector call number Len(ls) + 1 gave r:
\* its label, or, had it raised, the defaults of its whole block.
AfterDetection(ls, r) ==
  IF r.k = "return" THEN Append(ls, Val(r.v))
  ELSE IF Len(ls) < Len(DetectionBlock) THEN FirstBlockDefaults
  ELSE SubSeq(ls, 1, Len(DetectionBlock)) \o SecondBlockDefaults

RECURSIVE DetectWithoutKey(_)
\* The detector calls from number Len(ls) + 1 on when every
\* send_api_request raises the configuration error.
DetectWithoutKey(ls) ==
  IF Len(ls) >= Len(OptimizeDetections) THEN ls
  ELSE DetectWithoutKey(
         AfterDetection(ls, DetectorResult(OptimizeDetections[Len(ls) + 1],
                                           Raise("ValueError", CONFIG_ERROR_MESSAGE))))

\* Variant: the role label of the first detection block reaches the prompt.
SpecificRoleUsed_first(ls) == ls[Len(DetectionBlock)]

\* The role label that reaches the prompt: the last assignment to specific_role.
SpecificRoleUsed(ls) == ls[Len(ls)]

\* The one request posted once the labels ls are assigned: the next
\* detector's, or, after the second block, the generation request of line 906.
RequestsAfterDetection_both(key, c, ls) ==
  IF Len(ls) < Len(OptimizeDetections)
  THEN << Request(key, DetectorPrompt(OptimizeDetections[Len(ls) + 1], c.cv_text,
                                      c.job_description), DETECTOR_MAX_TOKENS),
          Request(key, c.cv_text, OPTIMIZE_MAX_TOKENS) >>
  ELSE << Request(key, OptimizePrompt(c.cv_text, c.job_description, SpecificRoleUsed(ls)),
                  OPTIMIZE_MAX_TOKENS) >>

\* Variant: without the return of line 906 a populated keywords_data reaches
\* the request of line 1205.
RequestsAfterDetection_live(key, c, ls) ==
  IF Len(ls) < Len(OptimizeDetections)
  THEN << Request(key, DetectorPrompt(OptimizeDetections[Len(ls) + 1], c.cv_text,
                                      c.job_description), DETECTOR_MAX_TOKENS) >>
  ELSE IF c.keywords_data \notin {None, EmptyObj}
  THEN << Request(key, <<"TASK: optymalizacja CV", "Slowa kluczowe">> \o c.job_description
                         \o c.cv_text, 2500) >>
  ELSE << Request(key, OptimizePrompt(c.cv_text, c.job_description, SpecificRoleUsed(ls)),
                  OPTIMIZE_MAX_TOKENS) >>

RequestsAfterDetection(key, c, ls) ==
  IF Len(ls) < Len(OptimizeDetections)
  THEN << Request(key, DetectorPrompt(OptimizeDetections[Len(ls) + 1], c.cv_text,
                                      c.job_description), DETECTOR_MAX_TOKENS) >>
  ELSE << Request(key, OptimizePrompt(c.cv_text, c.job_description, SpecificRoleUsed(ls)),
                  OPTIMIZE_MAX_TOKENS) >>

\* ------------------------------------------------------------ actions
NoCall ==
  [fn |-> "none", cv_text |-> <<>>, job_description |-> <<>>, company_name |-> <<>>,
   company_culture |-> <<>>, roles |-> <<>>, keywords_data |-> None,
   role |-> <<>>, industry |-> <<>>, seniority |-> <<>>, job_type |-> None,
   specific_role |-> None, prompt |-> <<>>,
   max_tokens |-> 0, retry_count |-> 0, retry_delay |-> 0]

NoPrev == [call |-> NoCall, sent |-> <<>>, answers |-> <<>>, outcome |-> NoOutcome]

Init ==
  /\ OPENROUTER_API_KEY \in ApiKeys
  /\ json_error_class \in JsonErrorClasses
  /\ pc = "idle"
  /\ call = NoCall
  /\ sent = <<>>
  /\ answers = <<>>
  /\ labels = <<>>
  /\ outcome = NoOutcome
  /\ prev = NoPrev

\* send_api_request up to the POST (lines 34-49): raise without a key,
\* otherwise post the request and wait for the backend.
Enter(c, onRaise) ==
  /\ call' = c
  /\ answers' = <<>>
  /\ labels' = <<>>
  /\ IF ApiKeyMissing(OPENROUTER_API_KEY)
     THEN /\ sent' = <<>>
          /\ outcome' = onRaise
          /\ pc' = "done"
     ELSE /\ sent' = <<Request(OPENROUTER_API_KEY, c.prompt, c.max_tokens)>>
          /\ outcome' = NoOutcome
          /\ pc' = "awaiting"
  /\ UNCHANGED <<OPENROUTER_API_KEY, json_error_class>>

\* A caller invokes send_api_request directly.
CallSendApiRequest ==
  /\ pc = "idle"
  /\ \E prompt \in Texts, max_tokens \in {DETECTOR_MAX_TOKENS, 2000},
        retry_count \in 0..MaxRetry, retry_delay \in 0..MaxDelay :
       Enter([NoCall EXCEPT !.fn = "send_api_request", !.prompt = prompt,
                            !.max_tokens = max_tokens, !.retry_count = retry_count,
                            !.retry_delay = retry_delay],
             Raise("ValueError", CONFIG_ERROR_MESSAGE))
  /\ UNCHANGED prev

\* A detector builds its prompt and calls send_api_request(prompt,
\* max_tokens=10) with the default retry arguments.
CallDetectorWith(fn, cv_text, job_description) ==
  Enter([NoCall EXCEPT !.fn = fn, !.cv_text = cv_text, !.job_description = job_description,
                       !.prompt = DetectorPrompt(fn, cv_text, job_description),
                       !.max_tokens = DETECTOR_MAX_TOKENS, !.retry_count = 1,
                       !.retry_delay = 1],
        DetectorResult(fn, Raise("ValueError", CONFIG_ERROR_MESSAGE)))

\* A caller invokes one of the detectors.
CallDetector ==
  /\ pc = "idle"
  /\ \E fn \in Detectors, cv_text \in Texts, job_description \in Texts :
       /\ fn # "detect_seniority_level" => cv_text = <<>>
       /\ CallDetectorWith(fn, cv_text, job_description)
  /\ UNCHANGED prev

\* A caller invokes one of the generators that make a single gateway call.
CallGenerator ==
  /\ pc = "idle"
  /\ \E fn \in SingleGenerators, cv_text \in CvTexts, job_description \in Texts,
        company_name \in CompanyTexts, company_culture \in CompanyTexts, roles \in RoleLists :
       /\ fn \notin {"generate_recruiter_feedback", "generate_cover_letter"}
            => job_description = <<>>
       /\ fn # "generate_cover_letter" => company_name = <<>> /\ company_culture = <<>>
       /\ fn # "generate_multi_versions" => roles = <<>>
       /\ LET c == [NoCall EXCEPT !.fn = fn, !.cv_text = cv_text,
                                  !.job_description = job_description,
                                  !.company_name = company_name,
                                  !.company_culture = company_culture, !.roles = roles,
                                  !.max_tokens = GeneratorMaxTokens(fn),
                                  !.retry_count = 1, !.retry_delay = 1]
          IN Enter([c EXCEPT !.prompt = GeneratorPrompt(c)],
                   GeneratorResult(fn, Raise("ValueError", CONFIG_ERROR_MESSAGE)))
  /\ UNCHANGED prev

\* A caller invokes optimize_cv_with_keywords or optimize_cv: the first
\* detector posts its request; without a key every detector call gives its
\* default at once and the generation call raises.
CallOptimizeWith(fn, cv_text, job_description, keywords_data) ==
  LET c == [NoCall EXCEPT !.fn = fn, !.cv_text = cv_text,
                          !.job_description = job_description,
                          !.keywords_data = keywords_data,
                          !.max_tokens = GeneratorMaxTokens(fn),
                          !.retry_count = 1, !.retry_delay = 1]
  IN /\ call' = c
     /\ answers' = <<>>
     /\ IF ApiKeyMissing(OPENROUTER_API_KEY)
        THEN /\ labels' = DetectWithoutKey(<<>>)
             /\ sent' = <<>>
             /\ outcome' = GeneratorResult(fn, Raise("ValueError", CONFIG_ERROR_MESSAGE))
             /\ pc' = "done"
        ELSE /\ labels' = <<>>
             /\ sent' = RequestsAfterDetection(OPENROUTER_API_KEY, c, <<>>)
             /\ outcome' = NoOutcome
             /\ pc' = "awaiting"
     /\ UNCHANGED <<OPENROUTER_API_KEY, json_error_class, prev>>

\* A caller invokes optimize_cv_with_keywords, or optimize_cv, which passes
\* no keywords_data.
CallOptimize ==
  /\ pc = "idle"
  /\ \E fn \in PipelineOps, cv_text \in Texts, job_description \in Texts,
        keywords_data \in KeywordsValues :
       /\ fn = "optimize_cv" => keywords_data = None
       /\ CallOptimizeWith(fn, cv_text, job_description, keywords_data)

OperationResult(fn, gw) ==
  IF fn \in Detectors THEN DetectorResult(fn, gw)
  ELSE IF fn \in Generators THEN GeneratorResult(fn, gw)
  ELSE gw

\* Variant: a gateway that remembers an earlier 429 and answers the next
\* call with the rate-limit sentinel whatever the backend says.
RespondWith_backoff(answer) ==
  LET gw == IF \E i \in 1..Len(prev.answers) : IsRateLimitStatus(prev.answers[i].status)
            THEN Return(Str(RATE_LIMITED_MESSAGE))
            ELSE GatewayResult(answer, json_error_class) IN
  /\ answers' = Append(answers, answer)
  /\ sent' = PostsAfterAnswer(sent, sent[Len(sent)], answer, call.retry_count)
  /\ outcome' = OperationResult(call.fn, gw)
  /\ pc' = "done"
  /\ UNCHANGED <<OPENROUTER_API_KEY, json_error_class, call, labels, prev>>

\* The outstanding POST of a single-call operation ends with `answer` and the
\* operation runs to its end.
RespondWith(answer) ==
  \E gw \in {GatewayResult(answer, json_error_class)} :
    /\ answers' = Append(answers, answer)
    /\ sent' = PostsAfterAnswer(sent, sent[Len(sent)], answer, call.retry_count)
    /\ outcome' = OperationResult(call.fn, gw)
    /\ pc' = "done"
    /\ UNCHANGED <<OPENROUTER_API_KEY, json_error_class, call, labels, prev>>

\* The backend answers (or the transport fails, or the timeout expires).
Respond ==
  /\ pc = "awaiting"
  /\ call.fn \notin PipelineOps
  /\ \E answer \in Answers : RespondWith(answer)

\* Variant: a detector call that fails in transport makes the detections
\* start again.
RespondDetectionWith_restart(answer) ==
  IF answer.kind = "exception"
  THEN /\ answers' = <<>>
       /\ labels' = <<>>
       /\ sent' = RequestsAfterDetection(OPENROUTER_API_KEY, call, <<>>)
       /\ UNCHANGED <<OPENROUTER_API_KEY, json_error_class, pc, call, outcome, prev>>
  ELSE
  \E gw \in {GatewayResult(answer, json_error_class)} :
    \E r \in {DetectorResult(OptimizeDetections[Len(labels) + 1], gw)} :
      \E ls \in {AfterDetection(labels, r)} :
        /\ answers' = Append(answers, answer)
        /\ labels' = ls
        /\ sent' = PostsAfterAnswer(sent, sent[Len(sent)], answer, call.retry_count)
                     \o RequestsAfterDetection(OPENROUTER_API_KEY, call, ls)
        /\ UNCHANGED <<OPENROUTER_API_KEY, json_error_class, pc, call, outcome, prev>>

\* optimize_cv_with_keywords: the outstanding detector call ends, its label is
\* assigned, and the next request is posted.
RespondDetectionWith(answer) ==
  \E gw \in {GatewayResult(answer, json_error_class)} :
    \E r \in {DetectorResult(OptimizeDetections[Len(labels) + 1], gw)} :
      \E ls \in {AfterDetection(labels, r)} :
        /\ answers' = Append(answers, answer)
        /\ labels' = ls
        /\ sent' = PostsAfterAnswer(sent, sent[Len(sent)], answer, call.retry_count)
                     \o RequestsAfterDetection(OPENROUTER_API_KEY, call, ls)
        /\ UNCHANGED <<OPENROUTER_API_KEY, json_error_class, pc, call, outcome, prev>>

\* A detector call of optimize_cv_with_keywords ends with a label or a timeout.
RespondDetection ==
  /\ pc = "awaiting"
  /\ call.fn \in PipelineOps
  /\ Len(labels) < Len(OptimizeDetections)
  /\ \E answer \in DetectionAnswers : RespondDetectionWith(answer)

\* optimize_cv_with_keywords: the generation call of line 906 ends.
RespondGeneration ==
  /\ pc = "awaiting"
  /\ call.fn \in PipelineOps
  /\ Len(labels) >= Len(OptimizeDetections)
  /\ \E answer \in GenerationAnswers : RespondWith(answer)

\* The caller takes the result; the module is ready for the next call.
Finish ==
  /\ pc = "done"
  /\ pc' = "idle"
  /\ call' = NoCall
  /\ sent' = <<>>
  /\ answers' = <<>>
  /\ labels' = <<>>
  /\ outcome' = NoOutcome
  /\ UNCHANGED <<OPENROUTER_API_KEY, json_error_class, prev>>

Next ==
  \/ CallSendApiRequest
  \/ CallDetector
  \/ CallGenerator
  \/ CallOptimize
  \/ Respond
  \/ RespondDetection
  \/ RespondGeneration
  \/ Finish

Spec == Init /\ [][Next]_vars

\* ------------------------------------------- a detector called twice
\* The caller keeps the first call's requests, answers and result.
FirstCall == prev = NoPrev /\ CallDetector

FirstRespond == prev = NoPrev /\ Respond

FinishKeep ==
  /\ pc = "done"
  /\ prev = NoPrev
  /\ prev' = [call |-> call, sent |-> sent, answers |-> answers, outcome |-> outcome]
  /\ pc' = "idle"
  /\ call' = NoCall
  /\ sent' = <<>>
  /\ answers' = <<>>
  /\ labels' = <<>>
  /\ outcome' = NoOutcome
  /\ UNCHANGED <<OPENROUTER_API_KEY, json_error_class>>

\* The same detector is called again with the same arguments.
CallAgain ==
  /\ pc = "idle"
  /\ prev # NoPrev
  /\ CallDetectorWith(prev.call.fn, prev.call.cv_text, prev.call.job_description)
  /\ UNCHANGED prev

\* The backend answers identical requests identically.
RespondAgain ==
  /\ pc = "awaiting"
  /\ prev # NoPrev
  /\ \E answer \in Answers :
       /\ sent = prev.sent => answer = prev.answers[1]
       /\ RespondWith(answer)

Forget ==
  /\ pc = "done"
  /\ prev # NoPrev
  /\ prev' = NoPrev
  /\ pc' = "idle"
  /\ call' = NoCall
  /\ sent' = <<>>
  /\ answers' = <<>>
  /\ labels' = <<>>
  /\ outcome' = NoOutcome
  /\ UNCHANGED <<OPENROUTER_API_KEY, json_error_class>>

NextRepeat ==
  \/ FirstCall
  \/ FirstRespond
  \/ FinishKeep
  \/ CallAgain
  \/ RespondAgain
  \/ Forget

SpecRepeat == Init /\ [][NextRepeat]_vars

\* ------------------------------- detectors on texts around the limit
\* A text of n characters whose character number PROMPT_TEXT_LIMIT is "y"
\* and whose later characters are "z".
BoundaryText(n) ==
  [i \in 1..n |-> IF i < PROMPT_TEXT_LIMIT THEN "a"
                  ELSE IF i = PROMPT_TEXT_LIMIT THEN "y" ELSE "z"]

BoundaryTexts == {BoundaryText(PROMPT_TEXT_LIMIT - 1 + k) : k \in 0..(MaxTextLen + 1)}

CallDetectorLong ==
  /\ pc = "idle"
  /\ \E fn \in Detectors, cv_text \in BoundaryTexts \cup {<<>>},
        job_description \in BoundaryTexts :
       /\ fn # "detect_seniority_level" => cv_text = <<>>
       /\ CallDetectorWith(fn, cv_text, job_description)
  /\ UNCHANGED prev

RespondLong ==
  /\ pc = "awaiting"
  /\ \E answer \in DetectionAnswers : RespondWith(answer)

NextLong == CallDetectorLong \/ RespondLong \/ Finish

SpecLong == Init /\ [][NextLong]_vars

\* ------------------------------------------------ the guidance lookups
\* Keys given to the lookups: the keys of the tables, the detector labels and
\* keys no table has.
RoleKeys == DOMAIN role_competencies \cup {SPECJALISTA, <<>>}
Optional(keys) == {None} \cup {Str(k) : k \in keys}

LookupResult(c) ==
  CASE c.fn = "get_role_specific_competencies" -> Obj(get_role_specific_competencies(c.role))
    [] c.fn = "get_job_type_template" -> Str(<<get_job_type_template(Val(c.job_type))>>)
    [] c.fn = "get_industry_specific_prompt" ->
         Str(get_industry_specific_prompt(c.industry, c.seniority, c.job_type, c.specific_role))
    [] c.fn = "get_measurable_achievements_prompt" ->
         Str(<<get_measurable_achievements_prompt(c.seniority)>>)
    [] c.fn = "get_structural_quality_control_prompt" ->
         Str(get_structural_quality_control_prompt(c.seniority, c.industry))

\* A caller invokes one of the lookups; it returns at once.
CallLookup ==
  /\ pc = "idle"
  /\ \E fn \in Lookups, role \in RoleKeys, industry \in valid_industries \cup {<<"x">>, <<>>},
        seniority \in SeniorityLevels \cup {<<"x">>, <<>>},
        job_type \in Optional(valid_job_types \cup {<<"x">>}),
        specific_role \in Optional(RoleKeys) :
       /\ fn # "get_role_specific_competencies" => role = <<>>
       /\ (industry = <<>>)
            = (fn \notin {"get_industry_specific_prompt", "get_structural_quality_control_prompt"})
       /\ (seniority = <<>>)
            = (fn \in {"get_role_specific_competencies", "get_job_type_template"})
       /\ fn = "get_job_type_template" => job_type # None
       /\ fn \notin {"get_job_type_template", "get_industry_specific_prompt"} => job_type = None
       /\ fn # "get_industry_specific_prompt" => specific_role = None
       /\ LET c == [NoCall EXCEPT !.fn = fn, !.role = role, !.industry = industry,
                                  !.seniority = seniority, !.job_type = job_type,
                                  !.specific_role = specific_role]
          IN /\ call' = c
             /\ outcome' = Return(LookupResult(c))
  /\ pc' = "done"
  /\ sent' = <<>>
  /\ answers' = <<>>
  /\ labels' = <<>>
  /\ UNCHANGED <<OPENROUTER_API_KEY, json_error_class, prev>>

NextLookup == CallLookup \/ Finish

SpecLookup == Init /\ [][NextLookup]_vars

\* ------------------------------- one optimization, any failure pattern
\* optimize_cv_with_keywords or optimize_cv is called on one CV and one job
\* description.
CallOptimizeOnce ==
  /\ pc = "idle"
  /\ \E fn \in PipelineOps : CallOptimizeWith(fn, <<"a">>, <<"a">>, None)

\* A detector call of the optimization ends with a label, a rate limit or a
\* timeout.
RespondDetectionAny ==
  /\ pc = "awaiting"
  /\ call.fn \in PipelineOps
  /\ Len(labels) < Len(OptimizeDetections)
  /\ \E answer \in DetectionAnswers \cup {HttpAnswer(429, <<"O", "K">>, EmptyObj)} :
       RespondDetectionWith(answer)

NextOptimize == CallOptimizeOnce \/ RespondDetectionAny \/ RespondGeneration \/ Finish

SpecOptimize == Init /\ [][NextOptimize]_vars

\* ------------------------------------------------- sequences of calls
\* A single-call operation's POST ends with one of a few answers.
RespondBriefly ==
  /\ pc = "awaiting"
  /\ call.fn \notin PipelineOps
  /\ \E answer \in GenerationAnswers : RespondWith(answer)

\* The call returns; what is remembered of it is the operation, the answers
\* it got and its result.
FinishRemember ==
  /\ pc = "done"
  /\ prev' = [call |-> [NoCall EXCEPT !.fn = call.fn], sent |-> <<>>,
              answers |-> answers, outcome |-> outcome]
  /\ pc' = "idle"
  /\ call' = NoCall
  /\ sent' = <<>>
  /\ answers' = <<>>
  /\ labels' = <<>>
  /\ outcome' = NoOutcome
  /\ UNCHANGED <<OPENROUTER_API_KEY, json_error_class>>

NextSequence ==
  \/ CallSendApiRequest
  \/ CallDetector
  \/ CallGenerator
  \/ RespondBriefly
  \/ FinishRemember

SpecSequence == Init /\ [][NextSequence]_vars

\* ------------------------------------------------ every POST completes
\* requests.post always ends: with an answer, a transport error, or the
\* timeout of 5 seconds (line 49).
NextLive ==
  \/ CallSendApiRequest
  \/ CallDetector
  \/ CallGenerator
  \/ CallOptimizeOnce
  \/ RespondBriefly
  \/ RespondDetection
  \/ RespondGeneration
  \/ Finish

\* The outstanding POST ends: one more answer is in.  Every step of
\* RespondBriefly, RespondDetection and RespondGeneration is such a step.
PostCompletes ==
  /\ pc = "awaiting"
  /\ \E answer \in Answers : answers' = Append(answers, answer)

SpecLive == Init /\ [][NextLive]_vars /\ WF_answers(PostCompletes)

\* ------------------------------------------------------------- claims
KeyPresent == OPENROUTER_API_KEY # <<>>
GatewayDone == pc = "done" /\ call.fn = "send_api_request"
Answered == Len(answers) >= 1
FirstAnswer == answers[1]
HttpAnswered == Answered /\ FirstAnswer.kind = "http"
ReturnsText == outcome.k = "return" /\ Tag(outcome.v) = "str"
ReturnsTextWith(prefix) == ReturnsText /\ IsPrefix(prefix, Val(outcome.v))

\* The value at choices[0].message.content of a well-formed body.
PathContent(body) == Val(Val(Val(Val(body).choices)[1]).message).content

\* C1: with credentials present, a 2xx answer whose body has
\* choices[0].message.content makes send_api_request return exactly that
\* content value, unmodified.
C1_ExactContent ==
  (GatewayDone /\ KeyPresent /\ HttpAnswered /\ Is2xx(FirstAnswer.status)
     /\ FirstAnswer.body \in WellFormedBodies)
  => outcome = Return(PathContent(FirstAnswer.body))

C1_Witness ==
  /\ GatewayDone /\ KeyPresent /\ HttpAnswered /\ FirstAnswer.status = 200
  /\ FirstAnswer.body = Completion(Str(<<" ", "S", "e", "n", "i", "o", "r", "\n">>))
  /\ outcome = Return(Str(<<" ", "S", "e", "n", "i", "o", "r", "\n">>))

\* C2: with credentials present, an answer with HTTP status 429 makes
\* send_api_request return a string beginning with [RATE_LIMITED], without
\* raising, for every prompt, max_tokens, retry_count and retry_delay.
C2_RateLimited ==
  (GatewayDone /\ KeyPresent /\ HttpAnswered /\ FirstAnswer.status = 429)
  => ReturnsTextWith(RATE_LIMITED_PREFIX)

C2_Witness ==
  /\ GatewayDone /\ KeyPresent /\ HttpAnswered /\ FirstAnswer.status = 429
  /\ FirstAnswer.reason = <<"O", "K">>
  /\ FirstAnswer.body \in WellFormedBodies
  /\ call.retry_count = MaxRetry /\ call.retry_delay = MaxDelay
  /\ outcome = Return(Str(RATE_LIMITED_MESSAGE))

\* C3: with credentials present, a POST that fails with a transport
\* exception (backend unreachable, timeout), whatever its message text,
\* makes send_api_request return a string beginning with [ERROR], without
\* raising.
C3_TransportError ==
  (GatewayDone /\ KeyPresent /\ Answered /\ FirstAnswer.kind = "exception")
  => ReturnsTextWith(ERROR_PREFIX)

\* C4: with the API key absent, send_api_request raises the configuration
\* error (ValueError) and no HTTP POST is issued at any point of the call.
C4_NoKeyNoPost ==
  (OPENROUTER_API_KEY = <<>> /\ call.fn = "send_api_request")
  => /\ sent = <<>>
     /\ answers = <<>>
     /\ pc = "done"
     /\ outcome = Raise("ValueError", CONFIG_ERROR_MESSAGE)

C4_Witness ==
  /\ OPENROUTER_API_KEY = <<>> /\ call.fn = "send_api_request" /\ pc = "done"
  /\ outcome.k = "raise" /\ Len(sent) = 0

\* C5: with credentials present, every HTTP status that is neither 429 nor
\* 2xx makes send_api_request return a string beginning with [ERROR],
\* whatever the body, without raising.
C5_OtherStatusError ==
  (GatewayDone /\ KeyPresent /\ HttpAnswered
     /\ FirstAnswer.status # 429 /\ ~Is2xx(FirstAnswer.status))
  => ReturnsTextWith(ERROR_PREFIX)

\* C6: with credentials present, a 2xx answer whose body lacks the path
\* choices[0].message.content makes send_api_request return a string
\* beginning with [ERROR].
C6_MalformedError ==
  (GatewayDone /\ KeyPresent /\ HttpAnswered /\ Is2xx(FirstAnswer.status)
     /\ FirstAnswer.body \in MalformedBodies)
  => ReturnsTextWith(ERROR_PREFIX)

\* C7: with credentials present, every backend behaviour makes
\* send_api_request return a text string that is the extracted content, a
\* [RATE_LIMITED] sentinel or an [ERROR] sentinel; no exception escapes and
\* no non-text value is returned.
C7_AlwaysText ==
  (GatewayDone /\ KeyPresent)
  => /\ ReturnsText
     /\ \/ IsPrefix(RATE_LIMITED_PREFIX, Val(outcome.v))
        \/ IsPrefix(ERROR_PREFIX, Val(outcome.v))
        \/ /\ HttpAnswered /\ FirstAnswer.body \in WellFormedBodies
           /\ outcome.v = PathContent(FirstAnswer.body)

C9_RetriesOnRateLimit ==
  (GatewayDone /\ KeyPresent /\ HttpAnswered /\ FirstAnswer.status = 429
     /\ outcome = Return(Str(RATE_LIMITED_MESSAGE)))
  => Len(sent) = call.retry_count + 1

\* The roles the prompt of detect_specific_role names, and its default.
RoleLabels ==
  { <<"k", "i", "e", "r", "o", "w", "c", "a">>,
    <<"m", "a", "g", "a", "z", "y", "n", "i", "e", "r">>,
    <<"s", "p", "r", "z", "e", "d", "a", "w", "c", "a">>,
    <<"k", "s", "i", "e", "g", "o", "w", "y">>,
    <<"p", "r", "o", "g", "r", "a", "m", "i", "s", "t", "a">>,
    <<"n", "a", "u", "c", "z", "y", "c", "i", "e", "l">>,
    <<"l", "e", "k", "a", "r", "z">>,
    <<"g", "r", "a", "f", "i", "k">>,
    <<"m", "e", "c", "h", "a", "n", "i", "k">>,
    <<"i", "n", "z", "y", "n", "i", "e", "r">>,
    <<"s", "p", "e", "c", "j", "a", "l", "i", "s", "t", "a">> }

LabelSet(fn) ==
  CASE fn = "detect_seniority_level" -> SeniorityLevels
    [] fn = "detect_job_type" -> valid_job_types
    [] fn = "detect_industry" -> valid_industries
    [] fn = "detect_specific_role" -> RoleLabels

DetectorDone == pc = "done" /\ call.fn \in Detectors

GatewayGave == GatewayResult(FirstAnswer, json_error_class)
GatewayGaveText == Answered /\ GatewayGave.k = "return" /\ Tag(GatewayGave.v) = "str"

DefaultLabel(fn) ==
  CASE fn = "detect_seniority_level" -> <<"m", "i", "d">>
    [] fn = "detect_job_type" -> <<"o", "f", "f", "i", "c", "e">>
    [] fn = "detect_industry" -> <<"g", "e", "n", "e", "r", "a", "l">>
    [] fn = "detect_specific_role" -> <<"s", "p", "e", "c", "j", "a", "l", "i", "s", "t", "a">>

ValidatingDetectors == {"detect_seniority_level", "detect_job_type", "detect_industry"}

\* C11: when the gateway's answer, trimmed and lower-cased, is not in the
\* detector's accepted set (`expert`, a sentinel), detect_seniority_level
\* returns `mid`, detect_job_type `office` and detect_industry `general`,
\* never the raw value.
C11_DefaultOnInvalid ==
  (DetectorDone /\ call.fn \in ValidatingDetectors /\ GatewayGaveText
     /\ Lower(Strip(Val(GatewayGave.v))) \notin LabelSet(call.fn))
  => outcome = Return(Str(DefaultLabel(call.fn)))

C11_Witness ==
  /\ DetectorDone /\ call.fn = "detect_job_type" /\ HttpAnswered
  /\ FirstAnswer.status = 200
  /\ FirstAnswer.body = Completion(Str(<<"e", "x", "p", "e", "r", "t">>))
  /\ outcome = Return(Str(<<"o", "f", "f", "i", "c", "e">>))

\* C12: when send_api_request raises inside a detector (in particular with
\* credentials absent) the detector returns its default: `mid`, `office`,
\* `general`, `specjalista`; with credentials absent no POST is issued.
C12_DefaultOnRaise ==
  DetectorDone
  => /\ (~KeyPresent \/ (Answered /\ GatewayGave.k = "raise"))
          => outcome = Return(Str(DefaultLabel(call.fn)))
     /\ ~KeyPresent => sent = <<>> /\ answers = <<>>

C12_Witness ==
  /\ DetectorDone /\ call.fn = "detect_specific_role" /\ ~KeyPresent
  /\ sent = <<>>
  /\ outcome = Return(Str(<<"s", "p", "e", "c", "j", "a", "l", "i", "s", "t", "a">>))

\* C15: a detector trims and lower-cases the gateway's answer before it
\* validates it: whenever the normalized answer is in the accepted set
\* (`IT`, ` Senior\n`) the detector returns the normalized label.
C15_NormalizedLabel ==
  (DetectorDone /\ call.fn \in ValidatingDetectors /\ GatewayGaveText
     /\ Lower(Strip(Val(GatewayGave.v))) \in LabelSet(call.fn))
  => outcome = Return(Str(Lower(Strip(Val(GatewayGave.v)))))

C15_Witness ==
  /\ DetectorDone /\ call.fn = "detect_industry" /\ HttpAnswered
  /\ FirstAnswer.status = 200
  /\ FirstAnswer.body = Completion(Str(<<"I", "T">>))
  /\ outcome = Return(Str(<<"i", "t">>))

\* C18: the 429 test comes before any look at the body, so a 429 answer
\* with a well-formed completion body still yields the [RATE_LIMITED]
\* sentinel; and for every other error status (4xx, 5xx) the status decides
\* before the body is parsed: the result is a sentinel built from the
\* status line, never the body's content or a parsing sentinel.
C18_StatusBeforeBody ==
  (GatewayDone /\ KeyPresent /\ HttpAnswered)
  => /\ FirstAnswer.status = 429 => outcome = Return(Str(RATE_LIMITED_MESSAGE))
     /\ (400 <= FirstAnswer.status /\ FirstAnswer.status <= 599)
          => /\ ReturnsText
             /\ \/ Val(outcome.v) = RATE_LIMITED_MESSAGE
                \/ IsPrefix(COMMUNICATION_ERROR_HEAD \o StatusText(FirstAnswer.status),
                            Val(outcome.v))

C18_Witness ==
  /\ GatewayDone /\ KeyPresent /\ HttpAnswered /\ FirstAnswer.status = 429
  /\ FirstAnswer.body = Completion(Str(<<"I", "T">>))
  /\ outcome = Return(Str(RATE_LIMITED_MESSAGE))

IsInputChar(t) == t \in {"a", "y", "z"}
EmbeddedText(request) == SelectSeq(request.json.messages[2].content, IsInputChar)
FirstChars(text) == IF Len(text) > 2000 THEN [i \in 1..2000 |-> text[i]] ELSE text

\* C14: the prompt a detector sends embeds the first 2000 characters of each
\* input text and nothing past them; a text of at most 2000 characters is
\* embedded whole and unchanged.
C14_TruncatedPrompt ==
  (call.fn \in Detectors /\ Len(sent) >= 1)
  => EmbeddedText(sent[1])
       = (IF call.fn = "detect_seniority_level" THEN FirstChars(call.cv_text) ELSE <<>>)
           \o FirstChars(call.job_description)

C14_Witness ==
  /\ call.fn = "detect_seniority_level" /\ Len(sent) = 1
  /\ Len(call.cv_text) > 2000 /\ Len(call.job_description) < 2000

GeneratorDone == pc = "done" /\ call.fn \in Generators
LastAnswer == answers[Len(answers)]

\* C16: with credentials present every generator hands its caller exactly
\* what its final send_api_request call gave, the [RATE_LIMITED] and [ERROR]
\* sentinels included.
C16_GeneratorPassThrough ==
  (GeneratorDone /\ KeyPresent) => outcome = GatewayResult(LastAnswer, json_error_class)

C16_Witness ==
  /\ GeneratorDone /\ KeyPresent /\ call.fn = "optimize_cv"
  /\ ReturnsTextWith(RATE_LIMITED_PREFIX)

PublicOperations == Detectors \cup Generators

\* C17 as stated: with credentials present every detector and every
\* generator, optimize_cv and optimize_cv_with_keywords included, performs
\* exactly one HTTP round trip.
C17_OneRoundTrip ==
  (pc = "done" /\ KeyPresent /\ call.fn \in PublicOperations)
  => Len(sent) = 1 /\ Len(answers) = 1

\* C17 amended: with credentials present every detector and every generator
\* other than optimize_cv and optimize_cv_with_keywords performs exactly one
\* HTTP round trip; those two perform nine.
C17_RoundTrips ==
  (pc = "done" /\ KeyPresent /\ call.fn \in PublicOperations)
  => LET n == IF call.fn \in {"optimize_cv", "optimize_cv_with_keywords"} THEN 9 ELSE 1
     IN Len(sent) = n /\ Len(answers) = n

C17_Witness ==
  /\ pc = "done" /\ KeyPresent /\ call.fn = "optimize_cv_with_keywords"
  /\ Len(sent) = 9 /\ Len(answers) = 9

\* C19: at most one request is outstanding at any time, and in
\* optimize_cv_with_keywords every earlier request has been answered and its
\* answer turned into a label when a request is outstanding.
C19_OneOutstanding ==
  /\ Len(sent) <= Len(answers) + 1
  /\ (pc = "awaiting" /\ call.fn \in PipelineOps)
       => Len(answers) = Len(sent) - 1 /\ Len(labels) = Len(sent) - 1

C19_Witness ==
  /\ pc = "awaiting" /\ call.fn = "optimize_cv_with_keywords"
  /\ Len(sent) = 5 /\ Len(labels) = 4

NoKeyLabels == <<MID, GENERAL, OFFICE, SPECJALISTA, MID, GENERAL, OFFICE, SPECJALISTA>>

\* C20: without credentials every generator ends by raising the gateway's
\* configuration error, with no POST; in optimize_cv_with_keywords the eight
\* detector calls have given their defaults before the error is raised.
C20_GeneratorsPropagate ==
  (~KeyPresent /\ call.fn \in Generators)
  => /\ pc = "done"
     /\ outcome = Raise("ValueError", CONFIG_ERROR_MESSAGE)
     /\ sent = <<>>
     /\ call.fn \in PipelineOps => labels = NoKeyLabels

C20_Witness ==
  /\ ~KeyPresent /\ pc = "done" /\ call.fn = "optimize_cv_with_keywords"
  /\ outcome.k = "raise" /\ Len(labels) = 8

\* What a single-call operation does when nothing but its own arguments, the
\* configuration and the answer to its own request matter.
OwnRequests ==
  IF KeyPresent THEN <<Request(OPENROUTER_API_KEY, call.prompt, call.max_tokens)>> ELSE <<>>
OwnResult ==
  OperationResult(call.fn,
                  IF KeyPresent THEN GatewayResult(LastAnswer, json_error_class)
                  ELSE Raise("ValueError", CONFIG_ERROR_MESSAGE))

C22_RequestShape ==
  \A i \in 1..Len(sent) :
    LET r == sent[i] IN
    /\ r.url = OPENROUTER_BASE_URL
    /\ r.json.model = MODEL
    /\ Len(r.json.messages) = 2
    /\ r.json.messages[1].role = "system"
    /\ r.json.messages[2].role = "user"
    /\ r.headers.ContentType = "application/json"
    /\ KeyPresent
    /\ r.headers.Authorization = <<"B", "e", "a", "r", "e", "r", " ">> \o OPENROUTER_API_KEY
    /\ "HTTPReferer" \in DOMAIN r.headers
    /\ call.fn \notin PipelineOps
         => /\ r.json.messages[2].content = call.prompt
            /\ r.json.max_tokens = call.max_tokens

C22_Witness ==
  /\ Len(sent) = 1 /\ call.fn = "send_api_request"
  /\ call.prompt # <<>> /\ call.max_tokens = 2000

LookupDone == pc = "done" /\ call.fn \in Lookups
LookupText == Val(outcome.v)

\* C23: every guidance lookup returns for every key, and for a key its table
\* does not have it gives the fixed fallback: the office template, the
\* generic competency record, the generic industry block, the mid seniority
\* block, the mid achievements entry, an empty industry part, the mid style.
C23_LookupFallbacks ==
  LookupDone =>
    /\ outcome.k = "return"
    /\ (call.fn = "get_job_type_template" /\ Val(call.job_type) \notin DOMAIN templates)
         => LookupText = <<"STRUKTURA CV DLA PRACY BIUROWEJ:">>
    /\ (call.fn = "get_role_specific_competencies" /\ call.role \notin DOMAIN role_competencies)
         => LookupText.language_style = "Profesjonalny, rzeczowy, zorientowany na wyniki"
            /\ LookupText.certifications = <<"Certyfikaty branzowe", "Szkolenia specjalistyczne">>
    /\ (call.fn = "get_industry_specific_prompt" /\ call.industry \notin DOMAIN industry_prompts)
         => LookupText[1] = "- Uzyj uniwersalnego jezyka biznesowego"
    /\ (call.fn = "get_industry_specific_prompt" /\ call.seniority \notin SeniorityLevels)
         => LookupText[3] = "- Zbalansuj doswiadczenie z potencjalem rozwojowym"
    /\ (call.fn = "get_measurable_achievements_prompt" /\ call.seniority \notin SeniorityLevels)
         => LookupText = <<"Wzbogac CV o konkretne, mierzalne wyniki:">>
    /\ (call.fn = "get_structural_quality_control_prompt"
          /\ call.industry \notin DOMAIN industry_specific)
         => LookupText[3] = ""
    /\ (call.fn = "get_structural_quality_control_prompt" /\ call.seniority \notin SeniorityLevels)
         => LookupText[5] = "- Zbalansuj profesjonalny jezyk z przystepnoscia"

C23_Witness ==
  /\ LookupDone /\ call.fn = "get_job_type_template"
  /\ call.job_type = Str(<<"x">>) /\ outcome.k = "return"

SeniorityTables == {seniority_guidance, prompts, language_style}

\* C28: every label a detector can return is a key of the lookup tables for
\* that kind of label: the six job types of the template table, the three
\* seniority levels of every seniority table, and every industry other than
\* `general` of the industry guidance table.
C28_LabelsAreKeys ==
  /\ valid_job_types \subseteq DOMAIN templates
  /\ \A t \in SeniorityTables : SeniorityLevels \subseteq DOMAIN t
  /\ (valid_industries \ {GENERAL}) \subseteq DOMAIN industry_prompts
  /\ (DetectorDone /\ call.fn = "detect_job_type") => Val(outcome.v) \in DOMAIN templates
  /\ (DetectorDone /\ call.fn = "detect_seniority_level")
       => \A t \in SeniorityTables : Val(outcome.v) \in DOMAIN t
  /\ (DetectorDone /\ call.fn = "detect_industry" /\ Val(outcome.v) # GENERAL)
       => Val(outcome.v) \in DOMAIN industry_prompts

C28_Witness ==
  /\ DetectorDone /\ call.fn = "detect_industry" /\ KeyPresent
  /\ Val(outcome.v) = <<"i", "t">>
  /\ get_industry_specific_prompt(Val(outcome.v), MID, None, None)[1]
       # GENERIC_INDUSTRY_GUIDANCE

PipelineCall == call.fn \in PipelineOps /\ KeyPresent
WithoutKeywords(c) == [c EXCEPT !.keywords_data = None]

\* C24: in optimize_cv_with_keywords nothing after the return of line 906 is
\* executed: the requests are those of the same call without keywords_data,
\* none has max_tokens 2500, nothing is sent after the generation request,
\* and the result is what the generation call gave.
C24_KeywordsIgnored ==
  PipelineCall =>
    /\ \A i \in 1..Len(sent) :
         /\ <<sent[i]>> = RequestsAfterDetection(OPENROUTER_API_KEY, WithoutKeywords(call),
                                                 SubSeq(labels, 1, i - 1))
         /\ sent[i].json.max_tokens # 2500
    /\ pc = "done"
         => /\ Len(sent) = Len(OptimizeDetections) + 1
            /\ sent[Len(sent)].json.max_tokens = 3000
            /\ outcome = GatewayResult(LastAnswer, json_error_class)

C24_Witness ==
  /\ PipelineCall /\ pc = "done" /\ call.fn = "optimize_cv_with_keywords"
  /\ call.keywords_data \notin {None, EmptyObj}
  /\ ReturnsText

NineCalls ==
  <<"detect_seniority_level", "detect_industry", "detect_job_type", "detect_specific_role",
    "detect_seniority_level", "detect_industry", "detect_job_type", "detect_specific_role",
    "generation">>

IsCall(request, name) ==
  IF name = "generation" THEN request.json.max_tokens = 3000
  ELSE /\ request.json.max_tokens = 10
       /\ request.json.messages[2].content
            = DetectorPrompt(name, call.cv_text, call.job_description)

\* C25: with credentials present one call of optimize_cv_with_keywords or
\* optimize_cv posts exactly nine requests in a fixed order, whatever the
\* backend answers: seniority, industry, job type, role, the same four
\* again (max_tokens 10 each), then the generation request (max_tokens
\* 3000); a failed request never suppresses a later one.
C25_NinePosts ==
  PipelineCall =>
    /\ Len(sent) <= 9
    /\ \A i \in 1..Len(sent) : IsCall(sent[i], NineCalls[i])
    /\ Len(sent) = Len(answers) + (IF pc = "awaiting" THEN 1 ELSE 0)
    /\ pc = "done" => Len(sent) = 9

C25_Witness ==
  /\ PipelineCall /\ pc = "done" /\ Len(sent) = 9
  /\ answers[1].status = 429 /\ answers[2].kind = "exception" /\ answers[8].status = 429

\* C27: the generation request of optimize_cv_with_keywords is determined by
\* cv_text, job_description and the label of the second detect_specific_role
\* call (the answer to the eighth request); the answers to the first seven
\* requests do not reach it.
C27_PromptFromSecondRole ==
  (PipelineCall /\ Len(sent) = 9)
  => sent[9].json.messages[2].content
       = OptimizePrompt(call.cv_text, call.job_description,
                        Val(DetectorResult("detect_specific_role",
                                           GatewayResult(answers[8], json_error_class)).v))

C27_Witness ==
  /\ PipelineCall /\ Len(sent) = 9
  /\ answers[4] # answers[8] /\ labels[4] # labels[8] /\ labels[2] # labels[6]

\* C26: send_api_request returns a string beginning with [RATE_LIMITED] only
\* when the backend answered the request with HTTP status 429.
C26_RateLimitedOnly429 ==
  (GatewayDone /\ KeyPresent /\ ReturnsTextWith(RATE_LIMITED_PREFIX))
  => HttpAnswered /\ FirstAnswer.status = 429

WithoutCompany(c) == [c EXCEPT !.company_name = <<>>, !.company_culture = <<>>]

C30_Terminates ==
  /\ [](Len(sent) <= 9)
  /\ (pc = "awaiting") ~> (pc = "done")

C30_Witness ==
  /\ pc = "done" /\ call.fn \in PipelineOps /\ KeyPresent
  /\ Len(sent) = 9 /\ answers[9].status = 429

====
